---------------------------- MODULE Spec2Model ----------------------------
(***************************************************************************)
(* State-machine model of logcleaner.py: the in-place redaction pass       *)
(* redact_data over a memory-mapped log file, and the batch coordinator    *)
(* clean_files that fans passes out over a process pool.                   *)
(*                                                                         *)
(* Bytes are one-character strings; a file or a line is a sequence of      *)
(* bytes.  Offsets are 0-based as in Python; Slice(s, a, b) is s[a:b].     *)
(*                                                                         *)
(* The module is Python 2 code (str patterns and masks on an mmap, the     *)
(* loop sentinel ""): mm.readline() returns "" at the end of the view,     *)
(* mm[a:b] = v raises IndexError unless len(v) = b - a, and mm.flush()     *)
(* raises mmap.error when msync fails.                                     *)
(***************************************************************************)
EXTENDS Integers, Sequences, FiniteSets, TLC

VARIABLES
    \* ---- redact_data: the file and the mapped view
    input,                \* content of dec_logfile when the pass opened it
    mm,                   \* bytes of the mapped view (mmap object contents)
    durable,              \* bytes known to be committed to storage (msync)
    pos,                  \* mm.tell(): the view's read cursor
    f_open,               \* file object f is open
    mm_open,              \* mapping mm exists and has not been closed
    \* ---- redact_data: locals
    line,                 \* local `line`
    current_line_offset,
    next_line_offset,
    cc_match,             \* span of the CC match, or None
    ssn_match,            \* span of the SSN match, or None
    lines_redacted,
    cc_redactions,
    ssn_redactions,
    line_count,
    pc,                   \* position inside redact_data
    err,                  \* exception that left redact_data, or "none"
    result,               \* audit_metadata_dict returned, or None
    \* ---- observation of a pass (history, not program state)
    snap,                 \* counters when the current line was read
    lines_read,           \* lines the scan loop has read
    flushes,              \* mm.flush() calls made
    last_flush,           \* byte range <<from, to>> of the last mm.flush()
    run,                  \* 1 for the first pass over a file, 2 for the re-run
    first,                \* result and output of the first pass
    \* ---- clean_files: the pool
    files_list,           \* the archive paths given to clean_files
    job,                  \* job[i]: stage of the pass of files_list[i]
    ran,                  \* ran[i]: steps of clean_file job i has completed
    wrote,                \* wrote[i]: paths job i has opened for writing
    audit,                \* audit[i]: lines job i has appended to its audit file
    main_pc,              \* position of the parent process in clean_files
    waiting               \* index of the job whose get() clean_files is in

redactvars == <<input, mm, durable, pos, f_open, mm_open, line,
                current_line_offset, next_line_offset, cc_match, ssn_match,
                lines_redacted, cc_redactions, ssn_redactions, line_count,
                pc, err, result, snap, lines_read, flushes, last_flush,
                run, first>>

poolvars == <<files_list, job, ran, wrote, audit, main_pc, waiting>>

vars == <<redactvars, poolvars>>

---------------------------------------------------------------------------
(* Bounds of the model *)

\* a file is built from at most MaxFrags fragments
MaxFrags == 4

\* files handed to clean_files
MaxFiles == 3

\* worker processes of the pool (the machine's CPU count)
Cores == 2

\* bytes of a page of the mapping, scaled down to the size of the files
PageSize == 8

---------------------------------------------------------------------------
(* Python values *)

None == <<>>

Digit == {"0", "1", "2", "3", "4", "5", "6", "7", "8", "9"}

\* the pattern element \d
D == "\\d"

\* s[a:b] for 0 <= a <= b <= len(s)
Slice(s, a, b) == SubSeq(s, a + 1, b)

Min(S) == CHOOSE x \in S : \A y \in S : x <= y

---------------------------------------------------------------------------
(* Module constants, lines 45-50 *)

cc_pattern ==
    <<"C", "C", "=", "\"", D, D, D, D, "-", D, D, D, D, "-",
      D, D, D, D, "-", D, D, D, D, "\"">>

ssn_pattern ==
    <<"S", "S", "N", "=", "\"", D, D, D, "-", D, D, "-", D, D, D, D, "\"">>

\* a mask that keeps the shape of the token: digits replaced by the digit 0
CC_REPLACE_ZEROS ==
    <<"C", "C", "=", "\"", "0", "0", "0", "0", "-", "0", "0", "0", "0", "-",
      "0", "0", "0", "0", "-", "0", "0", "0", "0", "\"">>

\* a mask that overwrites the hyphens too
CC_REPLACE_NO_HYPHENS ==
    <<"C", "C", "=", "\"", "x", "x", "x", "x", "x", "x", "x", "x", "x", "x",
      "x", "x", "x", "x", "x", "x", "x", "x", "x", "\"">>

CC_REPLACE_STR ==
    <<"C", "C", "=", "\"", "x", "x", "x", "x", "-", "x", "x", "x", "x", "-",
      "x", "x", "x", "x", "-", "x", "x", "x", "x", "\"">>

\* a mask without the hyphens, two bytes shorter than the token
SSN_REPLACE_SHORT ==
    <<"S", "S", "N", "=", "\"", "x", "x", "x", "x", "x", "x", "x", "x", "x",
      "\"">>

SSN_REPLACE_STR ==
    <<"S", "S", "N", "=", "\"", "x", "x", "x", "-", "x", "x", "-",
      "x", "x", "x", "x", "\"">>

---------------------------------------------------------------------------
(* re.search(pattern, line) and match.span(0) *)

\* the pattern matches s starting at 0-based offset i
MatchAt(pat, s, i) ==
    /\ i + Len(pat) <= Len(s)
    /\ \A k \in 1..Len(pat) :
          IF pat[k] = D THEN s[i + k] \in Digit ELSE s[i + k] = pat[k]

MatchStarts(pat, s) == {i \in 0..(Len(s) - Len(pat)) : MatchAt(pat, s, i)}

\* a match is looked for at the start of the line only, as re.match does
re_match_at_start(pat, s) ==
    IF MatchAt(pat, s, 0) THEN <<0, Len(pat)>> ELSE None

\* the rightmost match instead of the leftmost
re_search_last(pat, s) ==
    LET starts == MatchStarts(pat, s)
    IN  IF starts = {} THEN None
        ELSE <<-Min({-i : i \in starts}), -Min({-i : i \in starts}) + Len(pat)>>

\* leftmost match as <<start, end>>, or None
re_search(pat, s) ==
    LET starts == MatchStarts(pat, s)
    IN  IF starts = {} THEN None
        ELSE <<Min(starts), Min(starts) + Len(pat)>>

---------------------------------------------------------------------------
(* mmap operations *)

\* a readline that stops in front of the line terminator
ReadlineEndBeforeNewline(m, p) ==
    LET nl == {i \in p..(Len(m) - 1) : m[i + 1] = "\n"}
    IN  IF nl = {} THEN Len(m) ELSE Min(nl)

\* mm.readline() from cursor p: through the next "\n", or to the end
ReadlineEnd(m, p) ==
    LET nl == {i \in p..(Len(m) - 1) : m[i + 1] = "\n"}
    IN  IF nl = {} THEN Len(m) ELSE Min(nl) + 1

\* mm[a:b] = v is accepted only when v has the size of the slice
SliceAssignOk(a, b, v) == Len(v) = b - a

\* the view after mm[a:b] = v
SliceAssign(m, a, b, v) ==
    Slice(m, 0, a) \o v \o Slice(m, b, Len(m))

\* the match span used as it is, as if every line started at offset 0
AbsSpanLineRelative(off, m) == <<m[1], m[2]>>

\* the end of the span taken one byte too far
AbsSpanEndInclusive(off, m) == <<off + m[1], off + m[2] + 1>>

\* lines 131-132, 139-140: a line-relative match span as offsets of the view
AbsSpan(off, m) == <<off + m[1], off + m[2]>>

\* `line` keeps the bytes read before the credit-card overwrite
LineAfterCCStale(old, m, a, b) == old

\* line 134: after the credit-card overwrite `line` is rebound to the bytes
\* of the view between the line's offsets (old is the value it had)
LineAfterCC(old, m, a, b) == Slice(m, a, b)

\* every line is taken as redacted
RedactedLineAlways(cc, ssn) == TRUE

\* only a credit-card match makes the line a redacted one
RedactedLineCCOnly(cc, ssn) == cc # None

\* line 143: the line had a redaction
RedactedLine(cc, ssn) == cc # None \/ ssn # None

\* lines_redacted counted once per redaction instead of once per line
LinesRedactedPerToken(n, cc, ssn) ==
    n + (IF cc # None THEN 1 ELSE 0) + (IF ssn # None THEN 1 ELSE 0)

\* lines 143-144: lines_redacted once this line is accounted for
LinesRedactedAfter(n, cc, ssn) == IF RedactedLine(cc, ssn) THEN n + 1 ELSE n

\* line 120
InitialLineCount == 1

\* a flush that commits nothing
FlushedNothing(m, d) == d

\* line 145: what storage holds once mm.flush() has returned (m the view,
\* d what storage held)
Flushed(m, d) == m

\* line 145: mm.flush() is called without offset and size, which makes it
\* an msync over the whole mapping
FlushRange(m) == <<0, Len(m)>>

---------------------------------------------------------------------------
(* Files the pass is run on *)

CCTok ==
    <<"C", "C", "=", "\"", "1", "2", "3", "4", "-", "5", "6", "7", "8", "-",
      "9", "0", "1", "2", "-", "3", "4", "5", "6", "\"">>

SSNTok ==
    <<"S", "S", "N", "=", "\"", "1", "2", "3", "-", "4", "5", "-",
      "6", "7", "8", "9", "\"">>

\* a token-like text that is not of the credit-card shape
Malformed == <<"C", "C", "=", "\"", "1", "2", "3", "4", "\"">>

Frags == {CCTok, SSNTok, Malformed, <<"7">>, <<"\n">>}

RECURSIVE Concat(_)
Concat(fs) == IF fs = <<>> THEN <<>> ELSE Head(fs) \o Concat(Tail(fs))

Files == {Concat(fs) : fs \in UNION {[1..n -> Frags] : n \in 0..MaxFrags}}

---------------------------------------------------------------------------
(* redact_data, lines 87-164 *)

NoCounters == [lr |-> 0, cc |-> 0, ssn |-> 0, lc |-> 0, fl |-> 0, cur |-> 0]

Counters ==
    [lr |-> lines_redacted, cc |-> cc_redactions, ssn |-> ssn_redactions,
     lc |-> line_count, fl |-> flushes, cur |-> current_line_offset]

\* state of a pass before redact_data is entered on file content c
Enter(c) ==
    /\ input = c
    /\ mm = <<>>
    /\ durable = c
    /\ pos = 0
    /\ f_open = FALSE
    /\ mm_open = FALSE
    /\ line = <<>>
    /\ current_line_offset = 0
    /\ next_line_offset = 0
    /\ cc_match = None
    /\ ssn_match = None
    /\ lines_redacted = 0
    /\ cc_redactions = 0
    /\ ssn_redactions = 0
    /\ line_count = 0
    /\ pc = "open"
    /\ err = "none"
    /\ result = None
    /\ snap = NoCounters
    /\ lines_read = 0
    /\ flushes = 0
    /\ last_flush = None

InitRedact ==
    /\ \E c \in Files : Enter(c)
    /\ run = 1
    /\ first = None

\* an exception leaves the with block: f is closed by the with statement,
\* line 150 is skipped, redact_data returns nothing
Raise(e) ==
    /\ err' = e
    /\ pc' = "raised"
    /\ f_open' = FALSE
    /\ UNCHANGED <<mm_open, result>>

\* lines 112-123: open the file, map it, initialise the locals.  mmap of a
\* file of length 0 raises ValueError.
Open ==
    /\ UNCHANGED poolvars
    /\ pc = "open"
    /\ IF Len(input) = 0
       THEN /\ Raise("ValueError")
            /\ UNCHANGED <<mm, pos, lines_redacted, cc_redactions,
                           ssn_redactions, line_count, current_line_offset,
                           next_line_offset>>
       ELSE /\ f_open' = TRUE
            /\ mm_open' = TRUE
            /\ mm' = input
            /\ pos' = 0
            /\ lines_redacted' = 0
            /\ cc_redactions' = 0
            /\ ssn_redactions' = 0
            /\ line_count' = InitialLineCount
            /\ current_line_offset' = 0
            /\ next_line_offset' = 0
            /\ pc' = "readline"
            /\ UNCHANGED <<err, result>>
    /\ UNCHANGED last_flush
    /\ UNCHANGED <<input, durable, line, cc_match, ssn_match, snap,
                   lines_read, flushes, run, first>>

\* lines 125-126: the for statement calls mm.readline(); the loop ends on ""
ReadLine ==
    /\ UNCHANGED poolvars
    /\ pc = "readline"
    /\ LET e == ReadlineEnd(mm, pos)
       IN  /\ line' = Slice(mm, pos, e)
           /\ pos' = e
           /\ IF e = pos
              THEN /\ pc' = "close"
                   /\ UNCHANGED <<next_line_offset, snap, lines_read>>
              ELSE /\ next_line_offset' = e
                   /\ snap' = Counters
                   /\ lines_read' = lines_read + 1
                   /\ pc' = "cc"
    /\ UNCHANGED last_flush
    /\ UNCHANGED <<input, mm, durable, f_open, mm_open, current_line_offset,
                   cc_match, ssn_match, lines_redacted, cc_redactions,
                   ssn_redactions, line_count, err, result, flushes, run,
                   first>>

\* lines 128-134
CCStep ==
    /\ UNCHANGED poolvars
    /\ pc = "cc"
    /\ cc_match' = re_search(cc_pattern, line)
    /\ IF cc_match' = None
       THEN /\ pc' = "ssn"
            /\ UNCHANGED <<mm, cc_redactions, line, err, f_open, mm_open,
                           result>>
       ELSE LET a == AbsSpan(current_line_offset, cc_match')[1]
                b == AbsSpan(current_line_offset, cc_match')[2]
            IN  IF SliceAssignOk(a, b, CC_REPLACE_STR)
                THEN /\ mm' = SliceAssign(mm, a, b, CC_REPLACE_STR)
                     /\ cc_redactions' = cc_redactions + 1
                     /\ line' = LineAfterCC(line, mm', current_line_offset,
                                            next_line_offset)
                     /\ pc' = "ssn"
                     /\ UNCHANGED <<err, f_open, mm_open, result>>
                ELSE /\ Raise("IndexError")
                     /\ UNCHANGED <<mm, cc_redactions, line>>
    /\ UNCHANGED last_flush
    /\ UNCHANGED <<input, durable, pos, current_line_offset,
                   next_line_offset, ssn_match, lines_redacted,
                   ssn_redactions, line_count, snap, lines_read, flushes,
                   run, first>>

\* lines 136-141
SSNStep ==
    /\ UNCHANGED poolvars
    /\ pc = "ssn"
    /\ ssn_match' = re_search(ssn_pattern, line)
    /\ IF ssn_match' = None
       THEN /\ pc' = "flush"
            /\ UNCHANGED <<mm, ssn_redactions, err, f_open, mm_open, result>>
       ELSE LET a == AbsSpan(current_line_offset, ssn_match')[1]
                b == AbsSpan(current_line_offset, ssn_match')[2]
            IN  IF SliceAssignOk(a, b, SSN_REPLACE_STR)
                THEN /\ mm' = SliceAssign(mm, a, b, SSN_REPLACE_STR)
                     /\ ssn_redactions' = ssn_redactions + 1
                     /\ pc' = "flush"
                     /\ UNCHANGED <<err, f_open, mm_open, result>>
                ELSE /\ Raise("IndexError")
                     /\ UNCHANGED <<mm, ssn_redactions>>
    /\ UNCHANGED last_flush
    /\ UNCHANGED <<input, durable, pos, line, current_line_offset,
                   next_line_offset, cc_match, lines_redacted,
                   cc_redactions, line_count, snap, lines_read, flushes,
                   run, first>>

\* lines 143-145: mm.flush() is msync over the whole mapping; it raises
\* mmap.error when msync fails
FlushStep ==
    /\ UNCHANGED poolvars
    /\ pc = "flush"
    /\ lines_redacted' = LinesRedactedAfter(lines_redacted, cc_match, ssn_match)
    /\ IF RedactedLine(cc_match, ssn_match)
       THEN /\ flushes' = flushes + 1
            /\ last_flush' = FlushRange(mm)
            /\ \E ok \in BOOLEAN :
                  IF ok
                  THEN /\ durable' = Flushed(mm, durable)
                       /\ pc' = "advance"
                       /\ UNCHANGED <<err, f_open, mm_open, result>>
                  ELSE /\ Raise("mmap.error")
                       /\ UNCHANGED durable
       ELSE /\ pc' = "advance"
            /\ UNCHANGED <<flushes, last_flush, durable, err, f_open,
                           mm_open, result>>
    /\ UNCHANGED <<input, mm, pos, line, current_line_offset,
                   next_line_offset, cc_match, ssn_match, cc_redactions,
                   ssn_redactions, line_count, snap, lines_read, run, first>>

\* lines 147-148
Advance ==
    /\ UNCHANGED poolvars
    /\ pc = "advance"
    /\ current_line_offset' = next_line_offset
    /\ line_count' = line_count + 1
    /\ pc' = "readline"
    /\ UNCHANGED last_flush
    /\ UNCHANGED <<input, mm, durable, pos, f_open, mm_open, line,
                   next_line_offset, cc_match, ssn_match, lines_redacted,
                   cc_redactions, ssn_redactions, err, result, snap,
                   lines_read, flushes, run, first>>

\* line 150 and the end of the with block
Close ==
    /\ UNCHANGED poolvars
    /\ pc = "close"
    /\ mm_open' = FALSE
    /\ f_open' = FALSE
    /\ pc' = "return"
    /\ UNCHANGED last_flush
    /\ UNCHANGED <<input, mm, durable, pos, line, current_line_offset,
                   next_line_offset, cc_match, ssn_match, lines_redacted,
                   cc_redactions, ssn_redactions, line_count, err, result,
                   snap, lines_read, flushes, run, first>>

\* lines 152-164 (the elapsed time is left out)
Return ==
    /\ UNCHANGED poolvars
    /\ pc = "return"
    /\ result' = [total_lines_redacted |-> lines_redacted,
                  total_lines_processed |-> line_count,
                  total_cc_lines_redacted |-> cc_redactions,
                  total_ssn_lines_redacted |-> ssn_redactions]
    /\ pc' = "done"
    /\ UNCHANGED last_flush
    /\ UNCHANGED <<input, mm, durable, pos, f_open, mm_open, line,
                   current_line_offset, next_line_offset, cc_match,
                   ssn_match, lines_redacted, cc_redactions, ssn_redactions,
                   line_count, err, snap, lines_read, flushes, run, first>>

\* line 114: the mapping is a shared one, so the kernel may write its dirty
\* pages back to the file at any moment, before any flush and also after an
\* exception has left redact_data
Writeback ==
    /\ UNCHANGED poolvars
    /\ pc # "open"
    /\ durable # mm
    /\ durable' = mm
    /\ UNCHANGED <<input, mm, pos, f_open, mm_open, line,
                   current_line_offset, next_line_offset, cc_match,
                   ssn_match, lines_redacted, cc_redactions, ssn_redactions,
                   line_count, pc, err, result, snap, lines_read, flushes,
                   last_flush, run, first>>

\* redact_data is called again on the file the first pass left behind
Rerun ==
    /\ UNCHANGED poolvars
    /\ pc = "done"
    /\ run = 1
    /\ run' = 2
    /\ first' = [result |-> result, output |-> mm, input |-> input]
    /\ input' = mm
    /\ durable' = mm
    /\ mm' = <<>>
    /\ pos' = 0
    /\ line' = <<>>
    /\ current_line_offset' = 0
    /\ next_line_offset' = 0
    /\ cc_match' = None
    /\ ssn_match' = None
    /\ lines_redacted' = 0
    /\ cc_redactions' = 0
    /\ ssn_redactions' = 0
    /\ line_count' = 0
    /\ pc' = "open"
    /\ result' = None
    /\ snap' = NoCounters
    /\ lines_read' = 0
    /\ flushes' = 0
    /\ last_flush' = None
    /\ UNCHANGED <<f_open, mm_open, err>>

Next ==
    \/ Open
    \/ ReadLine
    \/ CCStep
    \/ SSNStep
    \/ FlushStep
    \/ Advance
    \/ Close
    \/ Return
    \/ Writeback
    \/ Rerun

---------------------------------------------------------------------------
(* Paths: a path is the sequence of the dot-separated parts of a file name, *)
(* <<"a", "gz">> for a.gz                                                   *)

\* line 173: os.path.splitext(comp_logfile_name)[0]; a name without an
\* extension is returned as it is
dec_logfile_name(p) == IF Len(p) > 1 THEN SubSeq(p, 1, Len(p) - 1) ELSE p

\* line 185: gzip -S .redacted.gz writes <name>.redacted.gz
redacted_archive_name(d) == d \o <<"redacted", "gz">>

\* line 194
audit_file_name(d) == d \o <<"audit">>

\* lines 196-200: the write calls of log_audit_metadata
AuditLines == 5

\* archive paths a command line may name
Paths == {<<"a", "gz">>, <<"a", "zz">>, <<"a">>, <<"b", "gz">>}

---------------------------------------------------------------------------
(* clean_files and clean_file, lines 59-85; main, lines 202-214 *)

\* the steps of clean_file, in the order of lines 82-85
Steps == <<"decompress", "redact", "compress", "audit">>

Running == {Steps[k] : k \in 1..Len(Steps)}

StepAfter(s) ==
    IF s = "decompress" THEN "redact"
    ELSE IF s = "redact" THEN "compress"
    ELSE IF s = "compress" THEN "audit"
    ELSE "done"

Jobs == DOMAIN job

\* the decompressed file of job i
DecFile(i) == dec_logfile_name(files_list[i])

\* the paths a step of job i that ran to its end has opened for writing:
\* lines 174, 112-114, 185
WrittenBy(i, step) ==
    IF step = "compress" THEN {redacted_archive_name(DecFile(i))}
    ELSE IF step = "audit" THEN {}
    ELSE {DecFile(i)}

IdlePool ==
    /\ files_list = <<>>
    /\ job = <<>>
    /\ ran = <<>>
    /\ wrote = <<>>
    /\ audit = <<>>
    /\ main_pc = "idle"
    /\ waiting = 0

IdleRedact ==
    /\ Enter(<<>>)
    /\ run = 1
    /\ first = None

\* main calls clean_files with at least one file name
InitPool ==
    /\ \E n \in 1..MaxFiles :
          /\ files_list \in [1..n -> Paths]
          /\ job = [i \in 1..n |-> "unsubmitted"]
          /\ ran = [i \in 1..n |-> {}]
          /\ wrote = [i \in 1..n |-> {}]
          /\ audit = [i \in 1..n |-> 0]
    /\ main_pc = "submit"
    /\ waiting = 0

\* lines 67-68: apply_async puts the next task on the pool's queue
Submit ==
    /\ UNCHANGED redactvars
    /\ main_pc = "submit"
    /\ LET i == Min({j \in Jobs : job[j] = "unsubmitted"})
       IN  /\ job' = [job EXCEPT ![i] = "queued"]
           /\ IF i = Len(job)
              THEN main_pc' = "wait" /\ waiting' = 1
              ELSE UNCHANGED <<main_pc, waiting>>
    /\ UNCHANGED <<files_list, ran, wrote, audit>>

\* a free worker takes the oldest queued task and enters clean_file
Take ==
    /\ UNCHANGED redactvars
    /\ main_pc \in {"submit", "wait", "close", "returned", "raised"}
    /\ Cardinality({j \in Jobs : job[j] \in Running}) < Cores
    /\ {j \in Jobs : job[j] = "queued"} # {}
    /\ LET i == Min({j \in Jobs : job[j] = "queued"})
       IN  job' = [job EXCEPT ![i] = Steps[1]]
    /\ UNCHANGED <<files_list, ran, wrote, audit, main_pc, waiting>>

\* lines 196-200: log_audit_metadata appends one more line to the audit file
AuditWrite(i) ==
    /\ UNCHANGED redactvars
    /\ main_pc # "exited"
    /\ job[i] = "audit"
    /\ audit[i] < AuditLines
    /\ audit' = [audit EXCEPT ![i] = @ + 1]
    /\ wrote' = [wrote EXCEPT ![i] = @ \cup {audit_file_name(DecFile(i))}]
    /\ UNCHANGED <<files_list, job, ran, main_pc, waiting>>

\* lines 82-85: the current step of clean_file returns
StepOk(i) ==
    /\ UNCHANGED redactvars
    /\ main_pc # "exited"
    /\ job[i] \in Running
    /\ job[i] = "audit" => audit[i] = AuditLines
    /\ ran' = [ran EXCEPT ![i] = @ \cup {job[i]}]
    /\ wrote' = [wrote EXCEPT ![i] = @ \cup WrittenBy(i, job[i])]
    /\ job' = [job EXCEPT ![i] = StepAfter(job[i])]
    /\ UNCHANGED <<files_list, audit, main_pc, waiting>>

\* lines 82-85: the current step of clean_file raises; the worker stores the
\* exception as the task's result.  decompress_file may raise before it has
\* opened the decompressed file for writing (gzip.open fails) or after (the
\* archive cannot be read).
StepFail(i) ==
    /\ UNCHANGED redactvars
    /\ main_pc # "exited"
    /\ job[i] \in Running
    /\ job' = [job EXCEPT ![i] = "failed"]
    /\ \E opened \in BOOLEAN :
          wrote' = [wrote EXCEPT ![i] =
                      IF job[i] = "decompress" /\ opened
                      THEN @ \cup {DecFile(i)} ELSE @]
    /\ UNCHANGED <<files_list, ran, audit, main_pc, waiting>>

\* lines 70-71: job.get() returns when the task succeeded
GetOk ==
    /\ UNCHANGED redactvars
    /\ main_pc = "wait"
    /\ job[waiting] = "done"
    /\ IF waiting = Len(job)
       THEN main_pc' = "close" /\ UNCHANGED waiting
       ELSE waiting' = waiting + 1 /\ UNCHANGED main_pc
    /\ UNCHANGED <<files_list, job, ran, wrote, audit>>

\* lines 70-71: job.get() re-raises the exception of a failed task; nothing
\* in clean_files or main catches it
GetRaise ==
    /\ UNCHANGED redactvars
    /\ main_pc = "wait"
    /\ job[waiting] = "failed"
    /\ main_pc' = "raised"
    /\ UNCHANGED <<files_list, job, ran, wrote, audit, waiting>>

\* line 73
PoolClose ==
    /\ UNCHANGED redactvars
    /\ main_pc = "close"
    /\ main_pc' = "returned"
    /\ UNCHANGED <<files_list, job, ran, wrote, audit, waiting>>

\* the parent process ends (main returns, or the exception reaches the top
\* level): the pool's daemon workers are terminated with it
Exit ==
    /\ UNCHANGED redactvars
    /\ main_pc \in {"returned", "raised"}
    /\ main_pc' = "exited"
    /\ job' = [i \in Jobs |->
                 IF job[i] \in Running THEN "killed"
                 ELSE IF job[i] = "queued" THEN "dropped"
                 ELSE job[i]]
    /\ UNCHANGED <<files_list, ran, wrote, audit, waiting>>

PoolNext ==
    \/ Submit
    \/ Take
    \/ \E i \in Jobs : AuditWrite(i)
    \/ \E i \in Jobs : StepOk(i)
    \/ \E i \in Jobs : StepFail(i)
    \/ GetOk
    \/ GetRaise
    \/ PoolClose
    \/ Exit

---------------------------------------------------------------------------
(* Specifications *)

Init == InitRedact /\ IdlePool

\* passes of redact_data over the files of Files
Spec == Init /\ [][Next]_vars

PoolInit == IdleRedact /\ InitPool

\* the same passes, with the process never halting between two statements
LiveSpec == Spec /\ WF_vars(Next)

\* clean_files over a list of files
SpecPool == PoolInit /\ [][PoolNext]_vars

---------------------------------------------------------------------------
(* Vocabulary of the properties *)

\* offsets at which a line of file content m starts
LineStarts(m) ==
    IF m = <<>> THEN {} ELSE {0} \cup {i \in 1..(Len(m) - 1) : m[i] = "\n"}

\* offsets of the tokens of shape pat that lie inside m[a:b]
Tokens(pat, m, a, b) == {i \in a..(b - Len(pat)) : MatchAt(pat, m, i)}

CCTokens(m, a, b) == Tokens(cc_pattern, m, a, b)

SSNTokens(m, a, b) == Tokens(ssn_pattern, m, a, b)

\* the mask v lies in m at offset t
MaskAt(m, t, v) == Len(m) >= t + Len(v) /\ Slice(m, t, t + Len(v)) = v

\* the scan loop has finished a line and is back at the for statement; the
\* line is input[snap.cur : current_line_offset]
LineDone == pc = "readline" /\ lines_read > 0

\* the pass has returned its result
PassDone == pc = "done"

\* a line input[a:b] with one credit-card token and no SSN token
CCOnly(a, b) ==
    Cardinality(CCTokens(input, a, b)) = 1 /\ SSNTokens(input, a, b) = {}

\* a line input[a:b] with one credit-card token and one SSN token
CCAndSSN(a, b) ==
    /\ Cardinality(CCTokens(input, a, b)) = 1
    /\ Cardinality(SSNTokens(input, a, b)) = 1

---------------------------------------------------------------------------
(* Claims *)

\* C1: a line holding one credit-card token and no SSN token ends the pass
\* with the credit-card mask at the token's offsets and with its length
\* unchanged, and processing it adds 1 to the credit-card counter, 0 to the
\* SSN counter and 1 to the redacted-lines counter.
C1_CreditCardOnlyLine ==
    /\ PassDone =>
          \A a \in LineStarts(input) :
             LET b == ReadlineEnd(input, a)
             IN  CCOnly(a, b) =>
                    /\ \A t \in CCTokens(input, a, b) :
                          MaskAt(mm, t, CC_REPLACE_STR)
                    /\ ReadlineEnd(mm, a) = b
    /\ (LineDone /\ CCOnly(snap.cur, current_line_offset)) =>
          /\ cc_redactions = snap.cc + 1
          /\ ssn_redactions = snap.ssn
          /\ lines_redacted = snap.lr + 1

\* a pass has finished over a file whose second or later line holds text and
\* then a single credit-card token
C1_Witness ==
    /\ PassDone
    /\ \E a \in LineStarts(input) :
          /\ a > 0
          /\ CCOnly(a, ReadlineEnd(input, a))
          /\ a \notin CCTokens(input, a, ReadlineEnd(input, a))
    /\ result.total_cc_lines_redacted >= 1

\* C2: a line holding one credit-card token and one SSN token, in either
\* order, ends the pass with both masks at the tokens' offsets; the SSN
\* matcher is run on the line as it is in the view at that moment; the line
\* adds 1 to each class counter and 1 to the redacted-lines counter.
C2_BothTokensLine ==
    /\ PassDone =>
          \A a \in LineStarts(input) :
             LET b == ReadlineEnd(input, a)
             IN  CCAndSSN(a, b) =>
                    /\ \A t \in CCTokens(input, a, b) :
                          MaskAt(mm, t, CC_REPLACE_STR)
                    /\ \A t \in SSNTokens(input, a, b) :
                          MaskAt(mm, t, SSN_REPLACE_STR)
    /\ pc = "ssn" =>
          line = Slice(mm, current_line_offset, next_line_offset)
    /\ (LineDone /\ CCAndSSN(snap.cur, current_line_offset)) =>
          /\ cc_redactions = snap.cc + 1
          /\ ssn_redactions = snap.ssn + 1
          /\ lines_redacted = snap.lr + 1

\* the scan has finished a line, not the first of its file, on which an SSN
\* token comes before a credit-card token
C2_Witness ==
    /\ LineDone
    /\ snap.cur > 0
    /\ CCAndSSN(snap.cur, current_line_offset)
    /\ \E c \in CCTokens(input, snap.cur, current_line_offset) :
          \E n \in SSNTokens(input, snap.cur, current_line_offset) : n < c

\* every line of file content m holds at most one token of each class
OnePerLine(m) ==
    \A a \in LineStarts(m) :
       /\ Cardinality(CCTokens(m, a, ReadlineEnd(m, a))) <= 1
       /\ Cardinality(SSNTokens(m, a, ReadlineEnd(m, a))) <= 1

\* the re-run reported nothing and left the first pass's output as it was
SecondPassIdle ==
    /\ result.total_cc_lines_redacted = 0
    /\ result.total_ssn_lines_redacted = 0
    /\ result.total_lines_redacted = 0
    /\ mm = first.output

\* C3 as stated: for every file content, a second pass over the output of a
\* first pass reports zero credit-card redactions, zero SSN redactions and
\* zero redacted lines and leaves the file byte-identical.
C3_Idempotent == (run = 2 /\ PassDone) => SecondPassIdle

\* C3 amended: for every file content in which each line holds at most one
\* credit-card token and at most one SSN token, a second pass over the
\* output of a first pass reports zero redactions of either class and zero
\* redacted lines and leaves the file byte-identical.
C3_IdempotentOnePerLine ==
    (run = 2 /\ PassDone /\ OnePerLine(first.input)) => SecondPassIdle

\* a second pass has finished over the output of a first pass that redacted
\* tokens of both classes on two lines or more
C3_Witness ==
    /\ run = 2
    /\ PassDone
    /\ OnePerLine(first.input)
    /\ first.result.total_lines_redacted >= 2
    /\ first.result.total_cc_lines_redacted >= 1
    /\ first.result.total_ssn_lines_redacted >= 1

\* C4: from the moment the view is mapped, through every step of the pass
\* and after it, the view has the length the file had when it was opened, as
\* has the stored file; no overwrite is refused for a mask whose size differs
\* from the size of the range it replaces.
C4_ViewLengthConstant ==
    /\ pc # "open" => Len(mm) = Len(input)
    /\ Len(durable) = Len(input)
    /\ err # "IndexError"

\* a first pass has finished that overwrote a token of each class, with
\* bytes of the file lying after the overwritten ranges
C4_Witness ==
    /\ run = 1
    /\ PassDone
    /\ result.total_cc_lines_redacted >= 1
    /\ result.total_ssn_lines_redacted >= 1
    /\ Len(mm) > Len(CC_REPLACE_STR) + Len(SSN_REPLACE_STR)
    /\ mm # input

\* a line input[a:b] that holds no token of either class
NoToken(a, b) == CCTokens(input, a, b) = {} /\ SSNTokens(input, a, b) = {}

\* C5: a line on which neither matcher matches is byte-identical before and
\* after it is processed (and at the end of the pass); processing it adds 1
\* to line_count, leaves lines_redacted, cc_redactions and ssn_redactions
\* unchanged and makes no flush.
C5_UnmatchedLineUntouched ==
    /\ (LineDone /\ NoToken(snap.cur, current_line_offset)) =>
          /\ Slice(mm, snap.cur, current_line_offset)
                = Slice(input, snap.cur, current_line_offset)
          /\ line_count = snap.lc + 1
          /\ lines_redacted = snap.lr
          /\ cc_redactions = snap.cc
          /\ ssn_redactions = snap.ssn
          /\ flushes = snap.fl
    /\ PassDone =>
          \A a \in LineStarts(input) :
             LET b == ReadlineEnd(input, a)
             IN  NoToken(a, b) => Slice(mm, a, b) = Slice(input, a, b)

\* the scan has finished a line of token-like text that matches neither
\* pattern, after it redacted an earlier line
C5_Witness ==
    /\ LineDone
    /\ NoToken(snap.cur, current_line_offset)
    /\ current_line_offset - snap.cur >= Len(Malformed)
    /\ snap.lr >= 1

\* some line of the file holds a credit-card token and an SSN token
SomeLineHasBoth ==
    \E a \in LineStarts(input) :
       /\ CCTokens(input, a, ReadlineEnd(input, a)) # {}
       /\ SSNTokens(input, a, ReadlineEnd(input, a)) # {}

\* C6: in the result, total_lines_redacted is at most the sum of the two
\* class counters, and equals it exactly when no line of the file holds both
\* a credit-card token and an SSN token.
C6_RedactedLinesVsClassCounts ==
    PassDone =>
       LET sum == result.total_cc_lines_redacted
                     + result.total_ssn_lines_redacted
       IN  /\ result.total_lines_redacted <= sum
           /\ (result.total_lines_redacted = sum) <=> ~SomeLineHasBoth

\* a pass has finished with two or more redacted lines, fewer than the sum
\* of the class counters
C6_Witness ==
    /\ PassDone
    /\ result.total_lines_redacted >= 2
    /\ result.total_lines_redacted
          < result.total_cc_lines_redacted + result.total_ssn_lines_redacted

\* C7: the total_lines_processed of the result equals the number of lines
\* the scan loop read, which is the number of lines of the file.
C7_LinesProcessedIsLinesRead ==
    PassDone =>
       /\ lines_read = Cardinality(LineStarts(input))
       /\ result.total_lines_processed = lines_read

\* C8: lines_redacted <= line_count in every state of the scan loop, and in
\* the result.
C8_RedactedAtMostProcessed ==
    /\ pc # "open" => lines_redacted <= line_count
    /\ result # None =>
          result.total_lines_redacted <= result.total_lines_processed

\* the loop is between the flush of a line and the increment of line_count,
\* every line so far having been redacted
C8_Witness ==
    /\ pc = "advance"
    /\ lines_redacted >= 2
    /\ lines_redacted = line_count

\* C9: clean_files leaves its wait loop only when every dispatched pass has
\* completed or failed, and no pass is cut short or never run because
\* another pass failed.
C9_FailureIsolated ==
    /\ main_pc \in {"returned", "raised"} =>
          \A i \in Jobs : job[i] \in {"done", "failed"}
    /\ \A i \in Jobs : job[i] \notin {"killed", "dropped"}

\* C10: when control has left redact_data, by return or by an exception, the
\* mapping is closed and the file descriptor is closed.
C10_ReleasedOnEveryExit ==
    pc \in {"return", "done", "raised"} => (~mm_open /\ ~f_open)

\* the scan is inside the body of the loop, or an exception left it there;
\* the current line is the view between current_line_offset and
\* next_line_offset
InLine ==
    \/ pc \in {"cc", "ssn", "flush", "advance"}
    \/ pc = "raised" /\ err = "mmap.error"

\* C11: whenever the scan is about to read a line, and after the loop, every
\* overwrite made so far is in storage.  While a line is being processed
\* storage holds, before that line, the bytes of the view (every earlier
\* line as the pass left it, with the first token of each class masked),
\* after that line, the bytes of the original file, and inside that line,
\* byte by byte, either the original or the view.
C11_CrashConsistent ==
    /\ pc \in {"readline", "close", "return", "done"} => durable = mm
    /\ InLine =>
          /\ Slice(durable, 0, current_line_offset)
                = Slice(mm, 0, current_line_offset)
          /\ Slice(durable, next_line_offset, Len(durable))
                = Slice(input, next_line_offset, Len(input))
          /\ \A i \in (current_line_offset + 1)..next_line_offset :
                durable[i] \in {input[i], mm[i]}
          /\ \A a \in LineStarts(input) :
                a < current_line_offset =>
                   LET b == ReadlineEnd(input, a)
                   IN  /\ CCTokens(input, a, b) # {} =>
                             MaskAt(durable, Min(CCTokens(input, a, b)),
                                    CC_REPLACE_STR)
                       /\ SSNTokens(input, a, b) # {} =>
                             MaskAt(durable, Min(SSNTokens(input, a, b)),
                                    SSN_REPLACE_STR)

\* the scan is in its second or a later line with the credit-card overwrite
\* of that line not yet in storage, after an earlier line was flushed
C11_Witness ==
    /\ pc = "ssn"
    /\ lines_read >= 2
    /\ snap.fl >= 1
    /\ cc_match # None
    /\ durable # mm

\* the range of the view the overwrites of the current line touched
ModifiedRange ==
    LET spans == {AbsSpan(current_line_offset, m) :
                     m \in {cc_match, ssn_match} \ {None}}
    IN  <<Min({sp[1] : sp \in spans}), -Min({-sp[2] : sp \in spans})>>

\* the smallest whole-page range that holds the byte range r of view m
PageRange(m, r) ==
    LET from == (r[1] \div PageSize) * PageSize
        to == ((r[2] + PageSize - 1) \div PageSize) * PageSize
    IN  <<from, IF to > Len(m) THEN Len(m) ELSE to>>

\* flushes and redacted lines go together: one flush for a line that had a
\* match, none for a line that had none
OneFlushPerRedactedLine ==
    /\ pc \in {"readline", "advance", "close", "return", "done"} =>
          flushes = lines_redacted
    /\ LineDone =>
          flushes = snap.fl
             + (IF NoToken(snap.cur, current_line_offset) THEN 0 ELSE 1)

\* C15: redact_data makes exactly one flush per line on which a class
\* matched and none for any other line, so the flushes are as many as the
\* redacted lines; and each flush covers only the pages of the range the
\* line's overwrites modified, not the whole mapped file.
C15_FlushOnlyWhatChanged ==
    /\ OneFlushPerRedactedLine
    /\ (pc = "advance" /\ RedactedLine(cc_match, ssn_match)) =>
          /\ PageRange(mm, ModifiedRange)[1] <= last_flush[1]
          /\ last_flush[2] <= PageRange(mm, ModifiedRange)[2]

\* C16: after a complete pass over a file in which every line holds at most
\* one credit-card token and at most one SSN token, no byte range of the
\* file matches either pattern, and the two class counters of the result
\* are the numbers of credit-card and SSN tokens the file held before.
C16_NoTokenLeft ==
    (PassDone /\ OnePerLine(input)) =>
       /\ CCTokens(mm, 0, Len(mm)) = {}
       /\ SSNTokens(mm, 0, Len(mm)) = {}
       /\ result.total_cc_lines_redacted
             = Cardinality(CCTokens(input, 0, Len(input)))
       /\ result.total_ssn_lines_redacted
             = Cardinality(SSNTokens(input, 0, Len(input)))

\* a first pass has finished over such a file that held three tokens or
\* more, of both classes, not all at the start of a line
C16_Witness ==
    /\ run = 1
    /\ PassDone
    /\ OnePerLine(input)
    /\ result.total_cc_lines_redacted >= 1
    /\ result.total_ssn_lines_redacted >= 1
    /\ result.total_cc_lines_redacted + result.total_ssn_lines_redacted >= 3
    /\ \E t \in CCTokens(input, 0, Len(input)) : t \notin LineStarts(input)

\* on the line input[a:b], which holds two or more tokens of shape pat, the
\* view has the mask at the leftmost token and the original bytes at every
\* later token
OnlyFirstMasked(pat, mask, a, b) ==
    LET toks == Tokens(pat, input, a, b)
    IN  Cardinality(toks) >= 2 =>
           /\ MaskAt(mm, Min(toks), mask)
           /\ \A t \in toks \ {Min(toks)} :
                 Slice(mm, t, t + Len(pat)) = Slice(input, t, t + Len(pat))

\* C17: on a line that holds two or more tokens of one class a pass masks
\* the leftmost token of that class only, leaves every later token of that
\* class byte-identical, and adds exactly 1 to that class's counter.
C17_FirstTokenOnly ==
    /\ LineDone =>
          LET a == snap.cur
              b == current_line_offset
          IN  /\ OnlyFirstMasked(cc_pattern, CC_REPLACE_STR, a, b)
              /\ OnlyFirstMasked(ssn_pattern, SSN_REPLACE_STR, a, b)
              /\ Cardinality(CCTokens(input, a, b)) >= 2 =>
                    cc_redactions = snap.cc + 1
              /\ Cardinality(SSNTokens(input, a, b)) >= 2 =>
                    ssn_redactions = snap.ssn + 1
    /\ PassDone =>
          \A a \in LineStarts(input) :
             /\ OnlyFirstMasked(cc_pattern, CC_REPLACE_STR, a,
                                ReadlineEnd(input, a))
             /\ OnlyFirstMasked(ssn_pattern, SSN_REPLACE_STR, a,
                                ReadlineEnd(input, a))

\* the scan has finished a line of a fresh file that held two credit-card
\* tokens and text between them
C17_Witness ==
    /\ run = 1
    /\ LineDone
    /\ LET toks == CCTokens(input, snap.cur, current_line_offset)
       IN  /\ Cardinality(toks) = 2
           /\ \E t \in toks : t > Min(toks) + Len(cc_pattern)

\* byte i (counted from 1) of the file lies inside a token of the file
InToken(i) ==
    \/ \E t \in CCTokens(input, 0, Len(input)) :
          t < i /\ i <= t + Len(cc_pattern)
    \/ \E t \in SSNTokens(input, 0, Len(input)) :
          t < i /\ i <= t + Len(ssn_pattern)

\* C18: at every moment of a pass a byte of the view that differs from the
\* byte the file had lies inside a token of the file, was a digit and is
\* now "x"; every other byte (prefixes, hyphens, quotes, line terminators,
\* other text) has its original value at its original offset.
C18_OnlyDigitsOfTokensChange ==
    pc # "open" =>
       /\ Len(mm) = Len(input)
       /\ \A i \in 1..Len(mm) :
             mm[i] # input[i] =>
                /\ InToken(i)
                /\ input[i] \in Digit
                /\ mm[i] = "x"

\* a first pass has finished that masked a token of each class in a file
\* with a digit outside the tokens
C18_Witness ==
    /\ run = 1
    /\ PassDone
    /\ result.total_cc_lines_redacted >= 1
    /\ result.total_ssn_lines_redacted >= 1
    /\ \E i \in 1..Len(mm) : mm[i] \in Digit /\ ~InToken(i)

\* the overwrite of match span m with mask v lies inside the current line
\* and has the size of the mask
OverwriteInLine(m, v) ==
    LET r == AbsSpan(current_line_offset, m)
    IN  /\ current_line_offset <= r[1]
        /\ r[2] <= next_line_offset
        /\ r[2] - r[1] = Len(v)
        /\ m[2] - m[1] = Len(v)

\* C19: every overwrite is made on a range that lies inside the span of the
\* current line of the view, the line span being a line of the view, with a
\* mask as long as the range (24 bytes for a credit card, 17 for an SSN);
\* the slice assignment is never refused for a wrong size.
C19_OverwriteInsideLine ==
    /\ pc \in {"cc", "ssn", "flush", "advance"} =>
          /\ current_line_offset \in LineStarts(mm)
          /\ next_line_offset = ReadlineEnd(mm, current_line_offset)
    /\ (pc \in {"ssn", "flush", "advance"} /\ cc_match # None) =>
          OverwriteInLine(cc_match, CC_REPLACE_STR) /\ Len(CC_REPLACE_STR) = 24
    /\ (pc \in {"flush", "advance"} /\ ssn_match # None) =>
          OverwriteInLine(ssn_match, SSN_REPLACE_STR)
             /\ Len(SSN_REPLACE_STR) = 17
    /\ err # "IndexError"

\* both overwrites have been made on a line that is not the first, the
\* SSN token neither at the start nor at the end of the line
C19_Witness ==
    /\ pc = "flush"
    /\ current_line_offset > 0
    /\ cc_match # None
    /\ ssn_match # None
    /\ ssn_match[1] > 0
    /\ current_line_offset + ssn_match[2] < next_line_offset

\* the for statement reads a line: the line starts at the cursor, which is
\* where the line before it ended and is the start of the next line of the
\* file not yet visited, and the cursor moves forward to the line's end
ReadsNextLine ==
    (pc = "readline" /\ pc' = "cc") =>
       /\ pos' > pos
       /\ current_line_offset = pos
       /\ next_line_offset' = pos'
       /\ pos \in LineStarts(input)
       /\ pos' \in LineStarts(input) \cup {Len(input)}
       /\ lines_read' = Cardinality({a \in LineStarts(input) : a <= pos})

\* the loop is left only with the cursor at the end of the view
EndsAtEndOfView == (pc = "readline" /\ pc' = "close") => pos = Len(mm)

\* an SSN overwrite is made in the step after the credit-card step of the
\* same line, with the credit-card mask of that line already in the view
CCBeforeSSN ==
    ssn_redactions' > ssn_redactions =>
       /\ pc = "ssn"
       /\ cc_redactions' = cc_redactions
       /\ LET toks == CCTokens(input, current_line_offset, next_line_offset)
          IN  toks # {} => MaskAt(mm, Min(toks), CC_REPLACE_STR)

\* C20: the scan loop over a non-empty file terminates (at line 150, or with
\* the exception of a failed flush); each line read starts at the cursor and
\* moves it strictly forward; the lines are visited once each in increasing
\* offset order, the last one also when it has no terminator; within a line
\* the credit-card overwrite comes before the SSN overwrite; the loop ends
\* with the cursor at the end of the view.
C20_ScanTerminates ==
    /\ (pc = "readline") ~> (pc \in {"close", "raised"})
    /\ [](pc = "close" =>
             /\ pos = Len(mm)
             /\ lines_read = Cardinality(LineStarts(input)))
    /\ [][ReadsNextLine /\ EndsAtEndOfView /\ CCBeforeSSN]_vars

\* the loop has ended after three lines or more, the last one without a
\* terminator, with redactions of both classes made
C20_Witness ==
    /\ pc = "close"
    /\ lines_read >= 3
    /\ mm[Len(mm)] # "\n"
    /\ cc_redactions >= 1
    /\ ssn_redactions >= 1

\* the steps job i has completed are the ones that come before the step it
\* is in
StepsInOrder(i) ==
    /\ job[i] = "decompress" => ran[i] = {}
    /\ job[i] = "redact" => ran[i] = {"decompress"}
    /\ job[i] = "compress" => ran[i] = {"decompress", "redact"}
    /\ job[i] = "audit" => ran[i] = {"decompress", "redact", "compress"}
    /\ job[i] = "done" => ran[i] = Running

\* an audit line is appended only by a pass whose three earlier steps have
\* succeeded
AuditOnlyAfterAll(i) ==
    audit[i] > 0 => {"decompress", "redact", "compress"} \subseteq ran[i]

\* C12: the steps of clean_file run in the order decompress, redact,
\* compress, audit; the audit file is written only when the three earlier
\* steps succeeded; a pass that failed, in whichever step, has appended
\* nothing to its audit file.
C12_NoAuditForFailedPass ==
    \A i \in Jobs :
       /\ StepsInOrder(i)
       /\ AuditOnlyAfterAll(i)
       /\ job[i] = "failed" => audit[i] = 0

\* C13: no two passes that are running at the same time work on the same
\* decompressed file, whatever list clean_files is given.
C13_ExclusiveDecompressedFile ==
    \A i \in Jobs : \A j \in Jobs :
       (i # j /\ job[i] \in Running /\ job[j] \in Running) =>
          DecFile(i) # DecFile(j)

\* C14: no pass opens for writing the archive path it was given: neither
\* the decompressed file nor the redacted archive has the input's path.
C14_ArchiveNeverOverwritten ==
    \A i \in Jobs : files_list[i] \notin wrote[i]

===========================================================================
